---- MODULE Spec2Model ----
(***************************************************************************)
(* A model of the ylong_runtime driver core:                               *)
(*   - executor/sleeper.rs : the Sleeper (packed Record word + idle list)  *)
(*   - fs/async_file.rs    : the File state machine over the blocking pool *)
(*   - executor/driver.rs  : Driver::run / run_once and the Handle, with   *)
(*     the timer wheel, the reactor and the Waker (ylong_io/src/waker.rs)  *)
(*   - ylong_io/src/sys/unix/tcp/socket.rs : the SO_LINGER conversions     *)
(* Each component has its own specification (SpecSleeper, SpecRecord,      *)
(* SpecFile, SpecDriver, SpecReactor, ...); the variables of the other     *)
(* components stay at their initial values.                                *)
(***************************************************************************)
EXTENDS Integers, Naturals, Sequences, FiniteSets, TLC

VARIABLES
    \* ---- Sleeper (executor/sleeper.rs) ----
    record,      \* Record(AtomicUsize): the packed word
    idle_list,   \* Mutex<Vec<usize>>: the protected vector
    lock,        \* the set of threads holding the idle_list mutex (0 or 1 thread)
    pc,          \* position of every thread inside the Sleeper methods
    res,         \* pop_worker's local `res` per thread (0 = None)
    sret,        \* the last value returned by a Sleeper method
    drivers,     \* workers whose last push_worker returned true and that were
                 \* not handed back by pop_worker since
    \* ---- File (fs/async_file.rs) ----
    state,       \* FileInner::state: "Idle", "Reading", "Writing", "Seeking"
    buf_some,    \* Idle(Some(buf)) (TRUE) or Idle(None) (FALSE); FALSE while a job owns buf
    unread,      \* FileBuf::remaining() of the buffer held in Idle(Some(buf))
    write_err,   \* FileInner::write_err: "None" or an io::ErrorKind
    idx,         \* FileInner::idx
    job,         \* the blocking job behind the JoinHandle stored in state
    pos,         \* cursor of the underlying std file
    flen,        \* length of the underlying std file
    fut,         \* the live future of an async fn of File (&self), NoFut if there is none
    sl_job,      \* the blocking job spawned by set_len
    sync_job,    \* the blocking job of sync_all / sync_data awaited by the live future
    sync_det,    \* number of running sync jobs whose future was dropped
    call,        \* length argument of a poll_write call that is inside its loop (0: none)
    fret,        \* the value returned by the File operation of the last step (NoRet: none)
    panic,       \* "none", the panic a File operation ended with, or "moved"
                 \* once the File was turned into the std file
    \* ---- File contents, followed while rt.stage # "off" ----
    content,     \* the bytes of the underlying std file
    bdata,       \* the bytes held by the FileBuf (read and not handed out, or to write)
    rt,          \* the caller of the round trip: stage, the bytes it writes, the bytes it read
    \* ---- Record used by one thread (executor/sleeper.rs) ----
    ref,         \* two independent reference counters fed the same operations
    tlog,        \* the successive try_inc_searching_num calls: state before, result
    \* ---- Driver (executor/driver.rs), Waker (ylong_io/src/waker.rs) ----
    now,         \* the clock
    tm,          \* the timer wheel: per entry "unreg", "in", "fired" or "cancelled", and its deadline
    reg,         \* position of the thread inside Handle::timer_register, per entry
    drv,         \* the thread inside Driver::run / run_once: fn, position, timeout of drive,
                 \* instant the wait began, result of drive
    wk,          \* the eventfd of the Waker: event pending, wake() calls since the last
                 \* return of drive
    io,          \* one schedule entry: event held by the kernel, readiness, tick, waker
                 \* slot, waker invoked
    task,        \* the task inside register_waker: position and the tick it saw
    \* ---- SO_LINGER conversions (ylong_io/src/sys/unix/tcp/socket.rs) ----
    lg           \* a caller of into_linger and from_linger: position, the
                 \* Option<Duration> it passes, the linger and the Option it got back

sleeperVars == <<record, idle_list, lock, pc, res, sret, drivers>>

fileVars == <<state, buf_some, unread, write_err, idx, job, pos, flen, fut,
              sl_job, sync_job, sync_det, call, fret, panic>>

recVars == <<ref, tlog>>

dataVars == <<content, bdata, rt>>

driverVars == <<now, tm, reg, drv, wk, io, task>>

lingerVars == <<lg>>

vars == <<sleeperVars, fileVars, recVars, dataVars, driverVars, lingerVars>>

\* What the actions of one component leave alone
notSleeperVars == <<fileVars, recVars, dataVars, driverVars, lingerVars>>
notFileVars == <<sleeperVars, recVars, driverVars, lingerVars>>
notRecVars == <<idle_list, lock, pc, res, drivers, fileVars, dataVars, driverVars,
                lingerVars>>
notDriverVars == <<sleeperVars, fileVars, recVars, dataVars, lingerVars>>
notLingerVars == <<sleeperVars, fileVars, recVars, dataVars, driverVars>>

----------------------------------------------------------------------------
(* Sleeper *)

\* Sleeper::num_workers, the argument of Sleeper::new.
NumWorkers == 3

Workers == 1 .. NumWorkers
\* Thread 0 is a thread outside the pool (it only wakes workers up).
Threads == 0 .. NumWorkers

ACTIVE_WORKER_SHIFT == 16
\* (1 << ACTIVE_WORKER_SHIFT) - 1; x & SEARCHING_MASK is x % (SEARCHING_MASK + 1)
SEARCHING_MASK == (2 ^ ACTIVE_WORKER_SHIFT) - 1
\* !SEARCHING_MASK: (x & ACTIVE_MASK) >> ACTIVE_WORKER_SHIFT is x \div 2^16
ActiveField(x) == x \div (2 ^ ACTIVE_WORKER_SHIFT)
SearchingField(x) == x % (SEARCHING_MASK + 1)

\* Record::new
Record_new(active_num) == active_num * (2 ^ ACTIVE_WORKER_SHIFT)

\* Record::load_state
load_state(r) == [active_num |-> ActiveField(r), searching_num |-> SearchingField(r)]

\* Record::dec_searching_num: fetch_sub(1), true iff the previous searching field was 1
Mut_Record_dec_searching_num(r) == [rec |-> r - 1, ret |-> SearchingField(r) = 0]
Record_dec_searching_num(r) == [rec |-> r - 1, ret |-> SearchingField(r) = 1]

\* Record::inc_searching_num: fetch_add(1)
Record_inc_searching_num(r) == r + 1

\* Record::inc_active_num: fetch_add(1 << ACTIVE_WORKER_SHIFT)
Mut_Record_inc_active_num(r) == r + 2 ^ (ACTIVE_WORKER_SHIFT - 1)
Record_inc_active_num(r) == r + 2 ^ ACTIVE_WORKER_SHIFT

\* Record::dec_active_num: fetch_sub(1 << 16); true iff the new active count is 0
Mut_Record_dec_active_num(r) ==
    [rec |-> r - 2 ^ ACTIVE_WORKER_SHIFT, ret |-> ActiveField(r) - 1 <= 1]
Record_dec_active_num(r) ==
    [rec |-> r - 2 ^ ACTIVE_WORKER_SHIFT, ret |-> ActiveField(r) - 1 = 0]

Active == load_state(record).active_num
Searching == load_state(record).searching_num

InIdleList(w) == \E i \in 1 .. Len(idle_list) : idle_list[i] = w

\* Vec::pop as used by pop_worker: the last element and the rest
Mut_VecPopFront(v) == [elem |-> v[1], rest |-> Tail(v)]
Mut_VecPeek(v) == [elem |-> v[Len(v)], rest |-> v]
VecPop(v) == [elem |-> v[Len(v)], rest |-> SubSeq(v, 1, Len(v) - 1)]

\* Sleeper::new(num_workers)
SleeperInit ==
    /\ record = Record_new(NumWorkers)
    /\ idle_list = <<>>
    /\ lock = {}
    /\ pc = [t \in Threads |-> "run"]
    /\ res = [t \in Threads |-> 0]
    /\ sret = [op |-> "new", who |-> 0, val |-> "none"]
    /\ drivers = {}

\* The test of try_inc_searching_num (line 63) on a loaded state
Mut_MayIncSearching(s) == s.searching_num * 2 <= s.active_num
MayIncSearching(s) == s.searching_num * 2 < s.active_num

\* try_inc_searching_num, first half: load_state and the test of line 63.
\* The increment is a separate atomic operation (line 65).
try_inc_searching_num_load(w) ==
    /\ UNCHANGED notSleeperVars
    /\ pc[w] = "run"
    /\ LET s == load_state(record) IN
         IF MayIncSearching(s)
           THEN /\ pc' = [pc EXCEPT ![w] = "tis_inc"]
                /\ UNCHANGED sret
           ELSE /\ sret' = [op |-> "try_inc_searching_num", who |-> w, val |-> FALSE]
                /\ UNCHANGED pc
    /\ UNCHANGED <<record, idle_list, lock, res, drivers>>

\* try_inc_searching_num, second half: inc_searching_num and return true.
try_inc_searching_num_inc(w) ==
    /\ UNCHANGED notSleeperVars
    /\ pc[w] = "tis_inc"
    /\ record' = Record_inc_searching_num(record)
    /\ pc' = [pc EXCEPT ![w] = "search"]
    /\ sret' = [op |-> "try_inc_searching_num", who |-> w, val |-> TRUE]
    /\ UNCHANGED <<idle_list, lock, res, drivers>>

\* Sleeper::dec_searching_num, called by a worker that is searching.
dec_searching_num(w) ==
    /\ UNCHANGED notSleeperVars
    /\ pc[w] = "search"
    /\ LET d == Record_dec_searching_num(record) IN
         /\ record' = d.rec
         /\ sret' = [op |-> "dec_searching_num", who |-> w, val |-> d.ret]
    /\ pc' = [pc EXCEPT ![w] = "run"]
    /\ UNCHANGED <<idle_list, lock, res, drivers>>

\* pop_worker, lines 39-42: the unlocked load and the early return.
pop_worker_load(t) ==
    /\ UNCHANGED notSleeperVars
    /\ pc[t] = "run"
    /\ LET s == load_state(record) IN
         IF s.active_num >= NumWorkers \/ s.searching_num > 0
           THEN /\ sret' = [op |-> "pop_worker", who |-> t, val |-> 0]
                /\ UNCHANGED pc
           ELSE /\ pc' = [pc EXCEPT ![t] = "pop_lock"]
                /\ UNCHANGED sret
    /\ UNCHANGED <<record, idle_list, lock, res, drivers>>

\* pop_worker, lines 44-46: lock the list and pop. With an empty list the
\* call returns None and the guard is dropped in the same step.
pop_worker_lock(t) ==
    /\ UNCHANGED notSleeperVars
    /\ pc[t] = "pop_lock"
    /\ lock = {}
    /\ IF idle_list = <<>>
         THEN /\ sret' = [op |-> "pop_worker", who |-> t, val |-> 0]
              /\ pc' = [pc EXCEPT ![t] = "run"]
              /\ UNCHANGED <<idle_list, lock, res>>
         ELSE /\ idle_list' = VecPop(idle_list).rest
              /\ res' = [res EXCEPT ![t] = VecPop(idle_list).elem]
              /\ lock' = {t}
              /\ pc' = [pc EXCEPT ![t] = "pop_inc"]
              /\ UNCHANGED sret
    /\ UNCHANGED <<record, drivers>>

\* pop_worker, lines 47-50: inc_active_num, drop the guard, return Some(res).
\* The caller unparks the returned worker, which runs again.
Mut_pop_worker_inc(t) ==
    /\ UNCHANGED notSleeperVars
    /\ pc[t] = "pop_inc"
    /\ lock' = {}
    /\ sret' = [op |-> "pop_worker", who |-> t, val |-> res[t]]
    /\ pc' = [pc EXCEPT ![t] = "run", ![res[t]] = "run"]
    /\ res' = [res EXCEPT ![t] = 0]
    /\ drivers' = drivers \ {res[t]}
    /\ UNCHANGED <<record, idle_list>>
pop_worker_inc(t) ==
    /\ UNCHANGED notSleeperVars
    /\ pc[t] = "pop_inc"
    /\ record' = Record_inc_active_num(record)
    /\ lock' = {}
    /\ sret' = [op |-> "pop_worker", who |-> t, val |-> res[t]]
    /\ pc' = [pc EXCEPT ![t] = "run", ![res[t]] = "run"]
    /\ res' = [res EXCEPT ![t] = 0]
    /\ drivers' = drivers \ {res[t]}
    /\ UNCHANGED idle_list

\* push_worker, lines 55-56: lock the list and push the caller's index.
\* A worker parks only while it runs and after it stopped searching.
push_worker_lock(w) ==
    /\ UNCHANGED notSleeperVars
    /\ pc[w] = "run"
    /\ lock = {}
    /\ lock' = {w}
    /\ idle_list' = Append(idle_list, w)
    /\ pc' = [pc EXCEPT ![w] = "push_dec"]
    /\ UNCHANGED <<record, res, sret, drivers>>

\* push_worker, line 58: dec_active_num, drop the guard, return its result.
push_worker_dec(w) ==
    /\ UNCHANGED notSleeperVars
    /\ pc[w] = "push_dec"
    /\ LET d == Record_dec_active_num(record) IN
         /\ record' = d.rec
         /\ sret' = [op |-> "push_worker", who |-> w, val |-> d.ret]
         /\ drivers' = IF d.ret THEN drivers \cup {w} ELSE drivers
    /\ lock' = {}
    /\ pc' = [pc EXCEPT ![w] = "parked"]
    /\ UNCHANGED <<idle_list, res>>

SleeperNext ==
    \/ \E w \in Workers : try_inc_searching_num_load(w)
    \/ \E w \in Workers : try_inc_searching_num_inc(w)
    \/ \E w \in Workers : dec_searching_num(w)
    \/ \E t \in Threads : pop_worker_load(t)
    \/ \E t \in Threads : pop_worker_lock(t)
    \/ \E t \in Threads : pop_worker_inc(t)
    \/ \E w \in Workers : push_worker_lock(w)
    \/ \E w \in Workers : push_worker_dec(w)

----------------------------------------------------------------------------
(* Record and try_inc_searching_num used by one thread *)

\* largest count a single-threaded run builds up (Sleeper::new(n), n <= MaxCount)
MaxCount == 4
\* most successive try_inc_searching_num calls that are recorded
MaxCalls == 3

\* Two independent counters, the reference the packed word is compared with.
\* valid: no counter was decremented at 0 and the searching count never left
\* its 16 bits.
RefCounters(a, s, v) == [active |-> a, searching |-> s, valid |-> v]

\* The searching field is kept near 0 or near the top of its 16 bits.
SearchingInRange(r) ==
    SearchingField(r) <= MaxCount \/ SearchingField(r) >= SEARCHING_MASK - 1

\* Record::new(n), possibly followed by SEARCHING_MASK inc_searching_num calls
RecordInit ==
    /\ \E n \in 0 .. MaxCount, s \in {0, SEARCHING_MASK} :
         /\ record = Record_new(n) + s
         /\ ref = RefCounters(n, s, TRUE)
    /\ tlog = <<>>
    /\ idle_list = <<>>
    /\ lock = {}
    /\ pc = [t \in Threads |-> "run"]
    /\ res = [t \in Threads |-> 0]
    /\ sret = [op |-> "new", who |-> 0, val |-> "none"]
    /\ drivers = {}

\* All assignments of one Record operation made by the only thread.
ApplyRecord(r, rf, op, val, log) ==
    /\ record' = r
    /\ ref' = rf
    /\ sret' = [op |-> op, who |-> 0, val |-> val]
    /\ tlog' = log
    /\ UNCHANGED notRecVars

\* Record::inc_active_num
rec_inc_active_num ==
    /\ ActiveField(record) < MaxCount
    /\ ApplyRecord(Record_inc_active_num(record),
                   [ref EXCEPT !.active = @ + 1],
                   "inc_active_num", "none", <<>>)

\* Record::dec_active_num. With an active field of 0 the whole word wraps
\* and line 114 underflows: left out (record >= 2^16).
rec_dec_active_num ==
    /\ record >= 2 ^ ACTIVE_WORKER_SHIFT
    /\ ApplyRecord(Record_dec_active_num(record).rec,
                   [ref EXCEPT !.active = @ - 1,
                               !.valid = @ /\ ref.active > 0],
                   "dec_active_num", Record_dec_active_num(record).ret, <<>>)

\* Record::inc_searching_num
rec_inc_searching_num ==
    /\ SearchingInRange(record)
    /\ SearchingField(record) # MaxCount
    /\ ref.active <= MaxCount
    /\ ApplyRecord(Record_inc_searching_num(record),
                   [ref EXCEPT !.searching = @ + 1,
                               !.valid = @ /\ ref.searching < SEARCHING_MASK],
                   "inc_searching_num", "none", <<>>)

\* Record::dec_searching_num. With a word of 0 the whole word wraps: left out.
rec_dec_searching_num ==
    /\ record >= 1
    /\ SearchingInRange(record)
    /\ SearchingField(record) # SEARCHING_MASK - 1
    /\ ApplyRecord(Record_dec_searching_num(record).rec,
                   [ref EXCEPT !.searching = @ - 1,
                               !.valid = @ /\ ref.searching > 0],
                   "dec_searching_num", Record_dec_searching_num(record).ret,
                   <<>>)

\* Sleeper::try_inc_searching_num, the whole call: no other thread runs
\* between its load_state and its inc_searching_num.
seq_try_inc_searching_num ==
    /\ Len(tlog) < MaxCalls
    /\ LET s == load_state(record) IN
         ApplyRecord(IF MayIncSearching(s)
                       THEN Record_inc_searching_num(record) ELSE record,
                     IF MayIncSearching(s)
                       THEN [ref EXCEPT !.searching = @ + 1] ELSE ref,
                     "try_inc_searching_num", MayIncSearching(s),
                     Append(tlog, [active |-> s.active_num,
                                   searching |-> s.searching_num,
                                   ret |-> MayIncSearching(s)]))

RecordNext ==
    \/ rec_inc_active_num
    \/ rec_dec_active_num
    \/ rec_inc_searching_num
    \/ rec_dec_searching_num
    \/ seq_try_inc_searching_num

----------------------------------------------------------------------------
(* File *)

\* File::buf_size_limit (the model's stand-in for DEFAULT_BUF_LIMIT)
BufLimit == 2
\* longest caller buffer handed to poll_read / poll_write
MaxLen == 2
\* largest offset of the underlying file (writes and seeks beyond it fail)
MaxPos == 2
\* most sync jobs left running by dropped sync_all / sync_data futures
MaxDetached == 1

Min(a, b) == IF a < b THEN a ELSE b
Max(a, b) == IF a > b THEN a ELSE b

\* io::ErrorKind values a blocking closure can fail with
ErrorKinds == {"E1", "E2"}
\* kind of the io::Error a failed join is converted to by `?`
JoinKind == "Other"

SeekArgs ==
    [whence : {"Start"}, off : {0}]
        \cup [whence : {"Current"}, off : -1 .. 1]
        \cup [whence : {"End"}, off : {-1}]

NoJob == [st |-> "none", back |-> 0, n |-> 0, whence |-> "None", off |-> 0,
          err |-> "None", val |-> 0, rem |-> 0]

\* The future of an async fn: which fn, where it is ("flush": inside
\* file.flush().await, "job": awaiting its blocking job), set_len's size.
NoFut == [fn |-> "none", at |-> "none", size |-> 0]

NoSideJob == [st |-> "none", unread |-> 0, size |-> 0, err |-> "None"]

\* The value a File operation returned: op, res ("Ok", "Err", "Pending"),
\* the error kind, the number returned, whether the call spawned a job and
\* whether the error was taken from write_err.
Ret(op, r, kind, n, spawned, stored) ==
    [op |-> op, res |-> r, kind |-> kind, n |-> n, spawned |-> spawned,
     stored |-> stored]

\* No operation returned in the last step.
NoRet == Ret("none", "Ok", "None", 0, FALSE, FALSE)

\* A caller that is not followed: the contents are left out
NoTrip == [stage |-> "off", bytes |-> <<>>, out |-> <<>>]

\* Write::write to the std file at offset p: the bytes land on p + 1 .. p + Len(b)
Overwrite(c, p, b) ==
    [i \in 1 .. Max(Len(c), p + Len(b)) |->
        IF i > p /\ i <= p + Len(b) THEN b[i - p] ELSE c[i]]

\* Where the caller of the round trip stands once a call returned r
NextStage(r) ==
    CASE r.res = "Err" /\ r.op # "none" -> "failed"
      [] rt.stage = "write" /\ r.op = "poll_write" /\ r.res = "Ok" ->
           IF r.n = Len(rt.bytes) THEN "flush" ELSE "failed"
      [] rt.stage = "flush" /\ r.op = "poll_flush" /\ r.res = "Ok" -> "seek"
      [] rt.stage = "seek" /\ r.op = "poll_seek" /\ r.res = "Ok" -> "read"
      [] rt.stage = "read" /\ r.op = "poll_read" /\ r.res = "Ok" -> "done"
      [] OTHER -> rt.stage

\* The bytes moved by a poll_* call that returned r: a write appends the
\* caller's bytes to the emptied buffer, a read or seek that spawns its job
\* empties it, a read that returns hands out the first r.n bytes.
CallData(r) ==
    IF rt.stage = "off"
      THEN UNCHANGED dataVars
      ELSE /\ content' = content
           /\ bdata' = CASE r.op = "poll_write" /\ r.spawned ->
                              SubSeq(rt.bytes, 1, r.n)
                         [] r.spawned -> <<>>
                         [] r.op = "poll_read" /\ r.res = "Ok" ->
                              SubSeq(bdata, r.n + 1, Len(bdata))
                         [] OTHER -> bdata
           /\ rt' = [rt EXCEPT !.stage = NextStage(r),
                               !.out = IF r.op = "poll_read" /\ r.res = "Ok"
                                         THEN SubSeq(bdata, 1, r.n) ELSE @]

\* The bytes moved by the closure of the job in the state, which ends as j
\* with the file at p: a write puts the buffer into the file where the
\* closure wrote, a read fills the buffer with the bytes it read.
JobData(j, p) ==
    IF rt.stage = "off"
      THEN UNCHANGED dataVars
      ELSE /\ rt' = rt
           /\ content' = IF state = "Writing" /\ job.st = "running" /\ j.st = "ok"
                           THEN Overwrite(content, p - Len(bdata), bdata)
                           ELSE content
           /\ bdata' = IF job.st = "running" /\ j.st = "ok"
                         THEN IF state = "Reading"
                                THEN SubSeq(content, pos + 1, p)
                                ELSE <<>>
                         ELSE bdata

\* File::new
FileInit ==
    /\ state = "Idle"
    /\ buf_some = TRUE
    /\ unread = 0
    /\ write_err = "None"
    /\ idx = 0
    /\ job = NoJob
    /\ pos = 0
    /\ flen \in {0, MaxPos}
    /\ fut = NoFut
    /\ sl_job = NoSideJob
    /\ sync_job = NoSideJob
    /\ sync_det = 0
    /\ call = 0
    /\ fret = NoRet
    /\ panic = "none"

\* JoinHandle::poll on the job stored in state. A handle that already
\* yielded its (failed) join result is polled again by the loops of the
\* operations: it stays pending or panics.
PollOutcomes(j) ==
    CASE j.st = "running" -> {"Pending"}
      [] j.st = "ok" -> {"Ok"}
      [] j.st = "err" -> {"Err"}
      [] j.st = "joinfail" -> {"Join"}
      [] OTHER -> {"Pending", "Panic"}

\* FileBuf::reserve: the read buffer grows to min(requested, buf_size_limit)
Reserve(want) == Min(want, BufLimit)
\* FileBuf::append: bytes of the caller taken into the (emptied) buffer
AppendLen(len) == Min(len, BufLimit)
\* FileBuf::append_to: bytes handed to the caller out of `rem` buffered ones
AppendTo(rem, want) == Min(rem, want)

\* Option::take (buf.take().unwrap()): what is left in Idle once the buffer
\* moved into the closure of a job: None
Mut_BufAfterTake == TRUE
BufAfterTake == FALSE

\* The error kind saved "for the next write" (lines 507-510, 572-574)
Mut_SaveWriteErr(old, o, kind) == old
SaveWriteErr(old, o, kind) == IF o = "Err" THEN kind ELSE old

\* All assignments of one poll_* call.
Apply(s, b, u, j, we, ix, r, pn, cl) ==
    /\ state' = s
    /\ buf_some' = b
    /\ unread' = u
    /\ job' = j
    /\ write_err' = we
    /\ idx' = ix
    /\ fret' = r
    /\ panic' = pn
    /\ call' = cl
    /\ CallData(r)
    /\ UNCHANGED <<pos, flen, fut, sl_job, sync_job, sync_det>>
    /\ UNCHANGED notFileVars

Panicked(why) ==
    Apply(state, buf_some, unread, job, write_err, idx, NoRet, why, 0)

\* A poll_* call needs &mut File: no future of an async fn borrows the File,
\* no other call is running and the File was not lost to a panic.
CanCall == fut = NoFut /\ call = 0 /\ panic = "none"

\* poll_read, Idle branch (lines 536-558) with `u` unread bytes in the buffer
Mut_ReadIdle(want, u, we, ix) ==
    Apply("Reading", BufAfterTake, 0,
          [NoJob EXCEPT !.st = "running", !.n = Reserve(want)], we, ix,
          Ret("poll_read", "Pending", "None", 0, TRUE, FALSE),
          "none", 0)
ReadIdle(want, u, we, ix) ==
    IF u # 0
      THEN Apply("Idle", TRUE, u - AppendTo(u, want), NoJob, we, ix,
                 Ret("poll_read", "Ok", "None", AppendTo(u, want), FALSE, FALSE),
                 "none", 0)
      ELSE Apply("Reading", BufAfterTake, 0,
                 [NoJob EXCEPT !.st = "running", !.n = Reserve(want)], we, ix,
                 Ret("poll_read", "Pending", "None", 0, TRUE, FALSE),
                 "none", 0)

\* AsyncRead::poll_read
poll_read(want) ==
    /\ CanCall
    /\ IF state = "Idle"
         THEN IF buf_some THEN ReadIdle(want, unread, write_err, idx)
                          ELSE Panicked("unwrap")
         ELSE \E o \in PollOutcomes(job) :
           CASE o = "Pending" ->
                  Apply(state, buf_some, unread, job, write_err, idx,
                        Ret("poll_read", "Pending", "None", 0, FALSE, FALSE),
                        "none", 0)
             [] o = "Panic" -> Panicked("join_repoll")
             [] o = "Join" ->
                  Apply(state, buf_some, unread, [job EXCEPT !.st = "gone"],
                        write_err, idx,
                        Ret("poll_read", "Err", JoinKind, 0, FALSE, FALSE),
                        "none", 0)
             [] OTHER ->
                  CASE state = "Reading" ->
                         IF o = "Ok"
                           THEN Apply("Idle", TRUE, job.rem - AppendTo(job.rem, want),
                                      NoJob, write_err, idx,
                                      Ret("poll_read", "Ok", "None",
                                          AppendTo(job.rem, want), FALSE, FALSE),
                                      "none", 0)
                           ELSE Apply("Idle", TRUE, job.rem, NoJob, write_err, idx,
                                      Ret("poll_read", "Err", job.err, 0, FALSE, FALSE),
                                      "none", 0)
                    [] state = "Writing" ->
                         ReadIdle(want, job.rem,
                                  SaveWriteErr(write_err, o, job.err), idx)
                    [] OTHER ->
                         ReadIdle(want, job.rem, write_err,
                                  IF o = "Ok" THEN job.val ELSE idx)

\* poll_write, Idle branch (lines 604-624) with `u` unread bytes in the buffer
Mut_WriteIdle(len, u) ==
    Apply("Writing", BufAfterTake, 0,
          [NoJob EXCEPT !.st = "running", !.back = 0, !.n = AppendLen(len)],
          write_err, idx,
          Ret("poll_write", "Ok", "None", AppendLen(len), TRUE, FALSE),
          "none", 0)
WriteIdle(len, u) ==
    Apply("Writing", BufAfterTake, 0,
          [NoJob EXCEPT !.st = "running", !.back = u, !.n = AppendLen(len)],
          write_err, idx,
          Ret("poll_write", "Ok", "None", AppendLen(len), TRUE, FALSE),
          "none", 0)

\* poll_write, the loop of lines 602-634. A pending job makes the loop poll
\* again at once: the call stays inside the loop (call = len).
WriteLoop(len) ==
    IF state = "Idle"
      THEN IF buf_some THEN WriteIdle(len, unread) ELSE Panicked("unwrap")
      ELSE \E o \in PollOutcomes(job) :
        CASE o = "Pending" ->
               Apply(state, buf_some, unread, job, write_err, idx, NoRet,
                     "none", len)
          [] o = "Panic" -> Panicked("join_repoll")
          [] o = "Join" ->
               IF state = "Writing"
                 THEN Apply(state, buf_some, unread, [job EXCEPT !.st = "gone"],
                            write_err, idx,
                            Ret("poll_write", "Err", JoinKind, 0, FALSE, FALSE),
                            "none", 0)
                 ELSE Apply(state, buf_some, unread, [job EXCEPT !.st = "gone"],
                            write_err, idx, NoRet, "none", len)
          [] OTHER ->
               IF state = "Writing" /\ o = "Err"
                 THEN Apply("Idle", TRUE, job.rem, NoJob, write_err, idx,
                            Ret("poll_write", "Err", job.err, 0, FALSE, FALSE),
                            "none", 0)
                 ELSE WriteIdle(len, job.rem)

\* AsyncWrite::poll_write
poll_write(len) ==
    /\ CanCall
    /\ IF write_err # "None"
         THEN Apply(state, buf_some, unread, job, write_err, idx,
                    Ret("poll_write", "Err", write_err, 0, FALSE, TRUE),
                    "none", 0)
         ELSE WriteLoop(len)

\* poll_write, a further turn of its loop once the job is no longer running
poll_write_spin ==
    /\ call # 0
    /\ panic = "none"
    /\ job.st # "running"
    /\ WriteLoop(call)
    /\ <<job, call, panic>> # <<job', call', panic'>>

\* poll_seek, Idle branch (lines 482-500) with `u` unread bytes in the buffer
Mut_SeekIdleAny(a, u, we, ix) ==
    Apply("Seeking", BufAfterTake, 0,
          [NoJob EXCEPT !.st = "running", !.whence = a.whence,
                        !.off = IF u # 0 THEN a.off - u ELSE a.off],
          we, ix, Ret("poll_seek", "Pending", "None", 0, TRUE, FALSE),
          "none", 0)
Mut_SeekIdle(a, u, we, ix) ==
    Apply("Seeking", BufAfterTake, 0,
          [NoJob EXCEPT !.st = "running", !.whence = a.whence, !.off = a.off],
          we, ix, Ret("poll_seek", "Pending", "None", 0, TRUE, FALSE),
          "none", 0)
SeekIdle(a, u, we, ix) ==
    Apply("Seeking", BufAfterTake, 0,
          [NoJob EXCEPT !.st = "running", !.whence = a.whence,
                        !.off = IF u # 0 /\ a.whence = "Current"
                                  THEN a.off - u ELSE a.off],
          we, ix, Ret("poll_seek", "Pending", "None", 0, TRUE, FALSE),
          "none", 0)

\* AsyncSeek::poll_seek
poll_seek(a) ==
    /\ CanCall
    /\ IF state = "Idle"
         THEN IF buf_some THEN SeekIdle(a, unread, write_err, idx)
                          ELSE Panicked("unwrap")
         ELSE \E o \in PollOutcomes(job) :
           CASE o = "Pending" ->
                  Apply(state, buf_some, unread, job, write_err, idx,
                        Ret("poll_seek", "Pending", "None", 0, FALSE, FALSE),
                        "none", 0)
             [] o = "Panic" -> Panicked("join_repoll")
             [] o = "Join" ->
                  IF state = "Seeking"
                    THEN Apply(state, buf_some, unread, [job EXCEPT !.st = "gone"],
                               write_err, idx,
                               Ret("poll_seek", "Err", JoinKind, 0, FALSE, FALSE),
                               "none", 0)
                    ELSE Apply(state, buf_some, unread, [job EXCEPT !.st = "gone"],
                               IF state = "Writing" THEN JoinKind ELSE write_err, idx,
                               Ret("poll_seek", "Pending", "None", 0, FALSE, FALSE),
                               "none", 0)
             [] OTHER ->
                  CASE state = "Seeking" ->
                         IF o = "Ok"
                           THEN Apply("Idle", TRUE, job.rem, NoJob, write_err, job.val,
                                      Ret("poll_seek", "Ok", "None", job.val, FALSE, FALSE),
                                      "none", 0)
                           ELSE Apply("Idle", TRUE, job.rem, NoJob, write_err, idx,
                                      Ret("poll_seek", "Err", job.err, 0, FALSE, FALSE),
                                      "none", 0)
                    [] state = "Writing" ->
                         SeekIdle(a, job.rem, SaveWriteErr(write_err, o, job.err), idx)
                    [] OTHER -> SeekIdle(a, job.rem, write_err, idx)

\* FileInner::poll_flush (lines 653-670): what one poll yields.
\* res is "Pending", "Ok", "Err" or "Panic".
FlushPoll(o) ==
    IF write_err # "None"
      THEN [res |-> "Err", kind |-> write_err, stored |-> TRUE,
            s |-> state, b |-> buf_some, u |-> unread, j |-> job]
    ELSE IF state = "Idle"
      THEN [res |-> "Ok", kind |-> "None", stored |-> FALSE,
            s |-> state, b |-> buf_some, u |-> unread, j |-> job]
    ELSE CASE o = "Pending" ->
                [res |-> "Pending", kind |-> "None", stored |-> FALSE,
                 s |-> state, b |-> buf_some, u |-> unread, j |-> job]
           [] o = "Panic" ->
                [res |-> "Panic", kind |-> "None", stored |-> FALSE,
                 s |-> state, b |-> buf_some, u |-> unread, j |-> job]
           [] o = "Join" ->
                [res |-> IF state = "Writing" THEN "Err" ELSE "Ok",
                 kind |-> IF state = "Writing" THEN JoinKind ELSE "None",
                 stored |-> FALSE,
                 s |-> state, b |-> buf_some, u |-> unread,
                 j |-> [job EXCEPT !.st = "gone"]]
           [] OTHER ->
                [res |-> IF state = "Writing" /\ o = "Err" THEN "Err" ELSE "Ok",
                 kind |-> IF state = "Writing" /\ o = "Err" THEN job.err ELSE "None",
                 stored |-> FALSE,
                 s |-> "Idle", b |-> TRUE, u |-> job.rem, j |-> NoJob]

FlushOutcomes == IF state = "Idle" \/ write_err # "None"
                   THEN {"None"} ELSE PollOutcomes(job)

\* AsyncWrite::poll_flush
poll_flush ==
    /\ CanCall
    /\ \E o \in FlushOutcomes :
         LET f == FlushPoll(o) IN
           IF f.res = "Panic"
             THEN Panicked("join_repoll")
             ELSE Apply(f.s, f.b, f.u, f.j, write_err, idx,
                        Ret("poll_flush", f.res, f.kind, 0, FALSE, f.stored),
                        "none", 0)

\* All assignments of one step of an async fn of File.
ApplyFut(s, b, u, j, we, ix, r, pn, ft, sl, sy, sd) ==
    /\ state' = s
    /\ buf_some' = b
    /\ unread' = u
    /\ job' = j
    /\ write_err' = we
    /\ idx' = ix
    /\ fret' = r
    /\ panic' = pn
    /\ fut' = ft
    /\ sl_job' = sl
    /\ sync_job' = sy
    /\ sync_det' = sd
    /\ UNCHANGED <<pos, flen, call>>
    /\ UNCHANGED dataVars
    /\ UNCHANGED notFileVars

\* FileInner::flush (lines 647-651): an error of poll_flush is saved
FlushSaved(f) == IF f.res = "Err" THEN f.kind ELSE write_err

\* The first poll of set_len, sync_all or sync_data: self.inner.lock().
async_begin(fn, size) ==
    /\ CanCall
    /\ ApplyFut(state, buf_some, unread, job, write_err, idx, NoRet, "none",
                [fn |-> fn, at |-> "flush", size |-> size],
                sl_job, sync_job, sync_det)

\* set_len, lines 280-301: file.flush().await has a result, the buffer is
\* taken out of Idle and the blocking job is spawned.
set_len_flush ==
    /\ fut.fn = "set_len" /\ fut.at = "flush"
    /\ panic = "none"
    /\ \E o \in FlushOutcomes :
         LET f == FlushPoll(o) IN
           /\ f.res # "Pending"
           /\ IF f.res = "Panic"
                THEN ApplyFut(state, buf_some, unread, job, write_err, idx, NoRet,
                              "join_repoll", NoFut, sl_job, sync_job, sync_det)
              ELSE IF f.s # "Idle"
                THEN ApplyFut(f.s, f.b, f.u, f.j, FlushSaved(f), idx, NoRet,
                              "unreachable", NoFut, sl_job, sync_job, sync_det)
              ELSE IF ~f.b
                THEN ApplyFut(f.s, f.b, f.u, f.j, FlushSaved(f), idx, NoRet,
                              "unwrap", NoFut, sl_job, sync_job, sync_det)
              ELSE ApplyFut("Idle", BufAfterTake, 0, f.j, FlushSaved(f), idx, NoRet, "none",
                            [fut EXCEPT !.at = "job"],
                            [NoSideJob EXCEPT !.st = "running", !.unread = f.u,
                                              !.size = fut.size],
                            sync_job, sync_det)

\* set_len, lines 302-306: the job was joined
set_len_finish ==
    /\ fut.fn = "set_len" /\ fut.at = "job"
    /\ sl_job.st \in {"ok", "err", "joinfail"}
    /\ CASE sl_job.st = "joinfail" ->
              ApplyFut(state, buf_some, unread, job, write_err, idx,
                       Ret("set_len", "Err", JoinKind, 0, FALSE, FALSE),
                       "none", NoFut, NoSideJob, sync_job, sync_det)
         [] sl_job.st = "ok" ->
              ApplyFut("Idle", TRUE, sl_job.unread, job, write_err, 0,
                       Ret("set_len", "Ok", "None", 0, FALSE, FALSE),
                       "none", NoFut, NoSideJob, sync_job, sync_det)
         [] OTHER ->
              ApplyFut("Idle", TRUE, sl_job.unread, job, write_err, idx,
                       Ret("set_len", "Err", sl_job.err, 0, FALSE, FALSE),
                       "none", NoFut, NoSideJob, sync_job, sync_det)

\* sync_all / sync_data, lines 219-222 and 247-250: file.flush().await has
\* a result and the sync closure is handed to the blocking pool.
Mut_sync_flush ==
    /\ fut.fn \in {"sync_all", "sync_data"} /\ fut.at = "flush"
    /\ panic = "none"
    /\ \E o \in FlushOutcomes :
         LET f == FlushPoll(o) IN
           IF f.res = "Panic"
             THEN ApplyFut(state, buf_some, unread, job, write_err, idx, NoRet,
                           "join_repoll", NoFut, sl_job, sync_job, sync_det)
             ELSE ApplyFut(f.s, f.b, f.u, f.j, FlushSaved(f), idx, NoRet, "none",
                           [fut EXCEPT !.at = "job"], sl_job,
                           [NoSideJob EXCEPT !.st = "running"], sync_det)
sync_flush ==
    /\ fut.fn \in {"sync_all", "sync_data"} /\ fut.at = "flush"
    /\ panic = "none"
    /\ \E o \in FlushOutcomes :
         LET f == FlushPoll(o) IN
           /\ f.res # "Pending"
           /\ IF f.res = "Panic"
                THEN ApplyFut(state, buf_some, unread, job, write_err, idx, NoRet,
                              "join_repoll", NoFut, sl_job, sync_job, sync_det)
                ELSE ApplyFut(f.s, f.b, f.u, f.j, FlushSaved(f), idx, NoRet, "none",
                              [fut EXCEPT !.at = "job"], sl_job,
                              [NoSideJob EXCEPT !.st = "running"], sync_det)

\* sync_all / sync_data: the sync job was joined and its result is returned
sync_finish ==
    /\ fut.fn \in {"sync_all", "sync_data"} /\ fut.at = "job"
    /\ sync_job.st \in {"ok", "err", "joinfail"}
    /\ ApplyFut(state, buf_some, unread, job, write_err, idx,
                Ret(fut.fn, IF sync_job.st = "ok" THEN "Ok" ELSE "Err",
                    CASE sync_job.st = "ok" -> "None"
                      [] sync_job.st = "err" -> sync_job.err
                      [] OTHER -> JoinKind,
                    0, FALSE, FALSE),
                "none", NoFut, sl_job, NoSideJob, sync_det)

\* The caller drops the future of set_len / sync_all / sync_data before it
\* completed. A blocking job that is running keeps running, detached; the
\* result of a finished one is dropped with the future.
drop_future ==
    /\ fut # NoFut
    /\ panic = "none"
    /\ sync_job.st = "running" => sync_det < MaxDetached
    /\ ApplyFut(state, buf_some, unread, job, write_err, idx, NoRet, "none", NoFut,
                IF sl_job.st = "running" THEN sl_job ELSE NoSideJob,
                NoSideJob,
                IF sync_job.st = "running" THEN sync_det + 1 ELSE sync_det)

\* Arc::strong_count(&self.file) - 1: every blocking closure holds a clone
\* of the Arc<SyncFile> from its spawn until it has run to its end.
Clones(j, sl, sy, sd) ==
    (IF j.st = "running" THEN 1 ELSE 0)
        + (IF sl.st = "running" THEN 1 ELSE 0)
        + (IF sy.st = "running" THEN 1 ELSE 0)
        + sd

\* Arc::try_unwrap(self.file): Ok iff the File holds the only reference
Mut_TryUnwrapOk(j, sl, sy, sd) == Clones(j, sl, sy, sd) <= 1
TryUnwrapOk(j, sl, sy, sd) == Clones(j, sl, sy, sd) = 0

\* File::try_into_std
try_into_std ==
    /\ CanCall
    /\ IF TryUnwrapOk(job, sl_job, sync_job, sync_det)
         THEN Apply(state, buf_some, unread, job, write_err, idx,
                    Ret("try_into_std", "Ok", "None", 0, FALSE, FALSE),
                    "moved", 0)
         ELSE Apply(state, buf_some, unread, job, write_err, idx,
                    Ret("try_into_std", "Err", "None", 0, FALSE, FALSE),
                    "none", 0)

\* File::into_std, from the moment file.flush().await has a result: the File
\* is owned by the future, so until then only the blocking jobs take steps.
into_std ==
    /\ CanCall
    /\ \E o \in FlushOutcomes :
         LET f == FlushPoll(o) IN
           /\ f.res # "Pending"
           /\ IF f.res = "Panic"
                THEN Panicked("join_repoll")
                ELSE Apply(f.s, f.b, f.u, f.j, FlushSaved(f), idx,
                           IF TryUnwrapOk(f.j, sl_job, sync_job, sync_det)
                             THEN Ret("into_std", "Ok", "None", 0, FALSE, FALSE)
                             ELSE NoRet,
                           IF TryUnwrapOk(f.j, sl_job, sync_job, sync_det)
                             THEN "moved" ELSE "try_unwrap",
                           0)

\* All assignments of one blocking closure run to its end by the pool.
ApplyJob(j, p, l, sl, sy, sd) ==
    /\ job' = j
    /\ pos' = p
    /\ flen' = l
    /\ sl_job' = sl
    /\ sync_job' = sy
    /\ sync_det' = sd
    /\ fret' = NoRet
    /\ panic = "none"
    /\ JobData(j, p)
    /\ UNCHANGED <<state, buf_some, unread, write_err, idx, fut, call, panic>>
    /\ UNCHANGED notFileVars

\* Where a seek closure lands: (&*file).seek(pos)
Mut_SeekTarget(j) == pos + j.off
SeekTarget(j) ==
    CASE j.whence = "Start" -> j.off
      [] j.whence = "Current" -> pos + j.off
      [] OTHER -> flen + j.off

\* The closure of a Reading job (lines 554-557): r_buf.read(&mut &*file)
read_job_run ==
    /\ state = "Reading" /\ job.st = "running"
    /\ \/ LET n == Min(job.n, Max(0, flen - pos)) IN
            ApplyJob([job EXCEPT !.st = "ok", !.val = n, !.rem = n],
                     pos + n, flen, sl_job, sync_job, sync_det)
       \/ \E k \in ErrorKinds :
            ApplyJob([job EXCEPT !.st = "err", !.err = k],
                     pos, flen, sl_job, sync_job, sync_det)

\* The closure of a Writing job (lines 613-622): seek back over the unread
\* bytes, then w_buf.write(&mut &*file)
write_job_run ==
    /\ state = "Writing" /\ job.st = "running"
    /\ \/ /\ pos - job.back >= 0
          /\ pos - job.back + job.n <= MaxPos
          /\ ApplyJob([job EXCEPT !.st = "ok"],
                      pos - job.back + job.n,
                      Max(flen, pos - job.back + job.n),
                      sl_job, sync_job, sync_det)
       \/ \E k \in ErrorKinds, p \in {pos, Max(0, pos - job.back)} :
            ApplyJob([job EXCEPT !.st = "err", !.err = k],
                     p, flen, sl_job, sync_job, sync_det)

\* The closure of a Seeking job (lines 496-499): (&*file).seek(pos)
seek_job_run ==
    /\ state = "Seeking" /\ job.st = "running"
    /\ \/ /\ SeekTarget(job) \in 0 .. MaxPos
          /\ ApplyJob([job EXCEPT !.st = "ok", !.val = SeekTarget(job)],
                      SeekTarget(job), flen, sl_job, sync_job, sync_det)
       \/ \E k \in ErrorKinds :
            ApplyJob([job EXCEPT !.st = "err", !.err = k],
                     pos, flen, sl_job, sync_job, sync_det)

\* The blocking task of the job in state does not run to its end (it
\* panicked or was cancelled): joining it fails.
job_join_fails ==
    /\ state # "Idle" /\ job.st = "running"
    /\ ApplyJob([job EXCEPT !.st = "joinfail"], pos, flen, sl_job, sync_job,
                sync_det)

\* What is left of a side job: its result if a future awaits it, else nothing
SideDone(j, awaited) == IF awaited THEN j ELSE NoSideJob

\* The closure of set_len (lines 290-301)
set_len_job_run ==
    /\ sl_job.st = "running"
    /\ LET awaited == fut.fn = "set_len" /\ fut.at = "job" IN
       \/ ApplyJob(job,
                   IF sl_job.unread = 0 THEN pos + sl_job.unread ELSE pos,
                   sl_job.size,
                   SideDone([sl_job EXCEPT !.st = "ok"], awaited),
                   sync_job, sync_det)
       \/ \E k \in ErrorKinds :
            ApplyJob(job, pos, flen,
                     SideDone([sl_job EXCEPT !.st = "err", !.err = k], awaited),
                     sync_job, sync_det)
       \/ ApplyJob(job, pos, flen,
                   SideDone([sl_job EXCEPT !.st = "joinfail"], awaited),
                   sync_job, sync_det)

\* The closure of sync_all / sync_data (async_op), awaited or detached
sync_job_run ==
    \/ /\ sync_job.st = "running"
       /\ \E r \in {"ok", "joinfail"} :
            ApplyJob(job, pos, flen, sl_job, [sync_job EXCEPT !.st = r],
                     sync_det)
    \/ /\ sync_job.st = "running"
       /\ \E k \in ErrorKinds :
            ApplyJob(job, pos, flen, sl_job,
                     [sync_job EXCEPT !.st = "err", !.err = k], sync_det)
    \/ /\ sync_det > 0
       /\ ApplyJob(job, pos, flen, sl_job, sync_job, sync_det - 1)

FileNext ==
    \/ \E want \in 1 .. MaxLen : poll_read(want)
    \/ \E len \in 1 .. MaxLen : poll_write(len)
    \/ poll_write_spin
    \/ \E a \in SeekArgs : poll_seek(a)
    \/ poll_flush
    \/ \E size \in 0 .. 1 : async_begin("set_len", size)
    \/ \E fn \in {"sync_all", "sync_data"} : async_begin(fn, 0)
    \/ set_len_flush
    \/ set_len_finish
    \/ sync_flush
    \/ sync_finish
    \/ drop_future
    \/ try_into_std
    \/ into_std
    \/ read_job_run
    \/ write_job_run
    \/ seek_job_run
    \/ job_join_fails
    \/ set_len_job_run
    \/ sync_job_run

----------------------------------------------------------------------------
(* Driver (executor/driver.rs) and the cross-thread Waker (ylong_io) *)
(* The build with the features "net" and "time": the Driver owns the      *)
(* reactor (IoDriver) and the timer wheel (TimeDriver). One thread at a   *)
(* time holds the Mutex<Driver> and calls run or run_once; other threads  *)
(* use the Handle.                                                        *)

\* timer entries (Clock) that are registered during a run
NumTimers == 1
\* last instant of the clock at which a timer is registered
MaxTime == 1
\* delays of a timer at its registration: already due, or one instant ahead
Delays == {0, 1}
\* most wake() calls between two returns of drive that are counted
MaxWakes == 2
\* most readiness events the kernel reports for the registered source
MaxTick == 1

Timers == 1 .. NumTimers

\* Option<Duration>::None
NoDuration == -1

\* TimeDriver::run, first half: the wheel is advanced to the current time
\* and every expired entry is fired
FireExpired(w, n) ==
    [t \in Timers |->
        IF w[t].st = "in" /\ w[t].dl <= n THEN [st |-> "fired", dl |-> 0]
                                          ELSE w[t]]

\* the deadlines that are pending in the wheel w
Pending(w) == {w[t].dl : t \in {u \in Timers : w[u].st = "in"}}

\* TimeDriver::run, second half: the duration until the next pending
\* deadline, None if the wheel is empty
NextDuration(w, n) ==
    IF Pending(w) = {} THEN NoDuration
    ELSE Max(0, (CHOOSE d \in Pending(w) : \A e \in Pending(w) : d <= e) - n)

\* TimeDriver::timer_register: the entry is put into the wheel
WheelInsert(w, t, dl) == [w EXCEPT ![t] = [st |-> "in", dl |-> dl]]

\* TimeDriver::timer_cancel: the entry is taken out of the wheel
WheelRemove(w, t) == [w EXCEPT ![t] = [st |-> "cancelled", dl |-> 0]]

\* WakerInner::wake: a write to the eventfd registered (edge-triggered) with
\* the kernel primitive. The event stays pending until a drive returns it.
\* calls counts the wake() calls since the last return of drive.
WakerInner_wake(w) ==
    [w EXCEPT !.pending = TRUE, !.calls = Min(w.calls + 1, MaxWakes)]

\* Waker::wake
Waker_wake(w) == WakerInner_wake(w)

\* The kernel primitive has something to return to the drive that waits on
\* it: the wake event, a readiness event, or the timeout has passed.
DriveReady ==
    \/ wk.pending
    \/ io.kev
    \/ (drv.dur # NoDuration /\ now >= drv.t0 + drv.dur)

\* The events one return of the kernel primitive hands over: the wake event
\* is consumed (all wake() calls since the last return are answered by it)
WakeTaken(w) == [pending |-> FALSE, calls |-> 0]

\* IoDriver::drive, per readiness event: the readiness bit is ORed into the
\* state of the schedule entry and its tick is incremented
SetReadiness(e) == [e EXCEPT !.kev = FALSE, !.ready = TRUE, !.tick = @ + 1]

\* IoDriver::drive, per readiness event: the waker slot is taken and the
\* waker, if there was one, is woken
TakeWaker(e) == [e EXCEPT !.slot = FALSE, !.woken = e.woken \/ e.slot]

\* run / run_once return to their caller with the result r of drive
Returned(r) == [fn |-> drv.fn, at |-> "idle", dur |-> NoDuration, t0 |-> 0,
                res |-> r]

\* Driver::initialize: an empty wheel, nothing registered, nobody driving
DriverInit ==
    /\ now = 0
    /\ tm = [t \in Timers |-> [st |-> "unreg", dl |-> 0]]
    /\ reg = [t \in Timers |-> "idle"]
    /\ drv = [fn |-> "none", at |-> "idle", dur |-> NoDuration, t0 |-> 0,
              res |-> "none"]
    /\ wk = [pending |-> FALSE, calls |-> 0]
    /\ io = [kev |-> FALSE, ready |-> FALSE, tick |-> 0, slot |-> FALSE,
             woken |-> FALSE]
    /\ task = [pc |-> "idle", seen |-> 0]

\* Driver::run, lines 66-69: self.time.run() yields the timeout of drive
Driver_run ==
    /\ drv.at = "idle"
    /\ tm' = FireExpired(tm, now)
    /\ drv' = [fn |-> "run", at |-> "timed", dur |-> NextDuration(tm', now),
               t0 |-> 0, res |-> "none"]
    /\ UNCHANGED <<now, reg, wk, io, task>>
    /\ UNCHANGED notDriverVars

\* Driver::run_once, lines 75-79: self.time.run(), its result is dropped
\* and drive gets Some(Duration::from_millis(0))
Mut_Driver_run_once ==
    /\ drv.at = "idle"
    /\ tm' = FireExpired(tm, now)
    /\ drv' = [fn |-> "run_once", at |-> "timed",
               dur |-> NextDuration(tm', now), t0 |-> 0, res |-> "none"]
    /\ UNCHANGED <<now, reg, wk, io, task>>
    /\ UNCHANGED notDriverVars
Driver_run_once ==
    /\ drv.at = "idle"
    /\ tm' = FireExpired(tm, now)
    /\ drv' = [fn |-> "run_once", at |-> "timed", dur |-> 0, t0 |-> 0,
               res |-> "none"]
    /\ UNCHANGED <<now, reg, wk, io, task>>
    /\ UNCHANGED notDriverVars

\* self.io.drive(timeout), lines 71 and 78-79: the thread enters the wait
\* on the kernel primitive
io_drive_block ==
    /\ drv.at = "timed"
    /\ drv' = [drv EXCEPT !.at = "drive", !.t0 = now]
    /\ UNCHANGED <<now, tm, reg, wk, io, task>>
    /\ UNCHANGED notDriverVars

\* self.io.drive(timeout) returns Ok: the kernel primitive returned its
\* events. The wake event is consumed; a readiness event is recorded in the
\* schedule entry, whose waker is taken in the next step; without one
\* run / run_once return.
io_drive_return ==
    /\ drv.at = "drive"
    /\ DriveReady
    /\ wk' = WakeTaken(wk)
    /\ IF io.kev
         THEN /\ io' = SetReadiness(io)
              /\ drv' = [drv EXCEPT !.at = "dispatch"]
         ELSE /\ io' = io
              /\ drv' = Returned("ok")
    /\ UNCHANGED <<now, tm, reg, task>>
    /\ UNCHANGED notDriverVars

\* self.io.drive(timeout), the rest of the event loop: the waker of the
\* ready direction is taken and woken, then run / run_once return
Mut_io_drive_dispatch ==
    /\ drv.at = "dispatch"
    /\ io' = io
    /\ drv' = Returned("ok")
    /\ UNCHANGED <<now, tm, reg, wk, task>>
    /\ UNCHANGED notDriverVars
io_drive_dispatch ==
    /\ drv.at = "dispatch"
    /\ io' = TakeWaker(io)
    /\ drv' = Returned("ok")
    /\ UNCHANGED <<now, tm, reg, wk, task>>
    /\ UNCHANGED notDriverVars

\* self.io.drive(timeout) returns Err: .expect("io driver running failed")
\* panics (lines 71, 80)
Mut_io_drive_fail ==
    /\ drv.at = "drive"
    /\ drv' = Returned("err")
    /\ UNCHANGED <<now, tm, reg, wk, io, task>>
    /\ UNCHANGED notDriverVars
io_drive_fail ==
    /\ drv.at = "drive"
    /\ drv' = [drv EXCEPT !.at = "panicked", !.res = "err"]
    /\ UNCHANGED <<now, tm, reg, wk, io, task>>
    /\ UNCHANGED notDriverVars

\* Handle::wake called by a thread that scheduled a task
Mut_Handle_wake ==
    /\ wk.calls < MaxWakes
    /\ wk' = [wk EXCEPT !.pending = @ \/ drv.at = "drive", !.calls = @ + 1]
    /\ UNCHANGED <<now, tm, reg, drv, io, task>>
    /\ UNCHANGED notDriverVars
Handle_wake ==
    /\ wk.calls < MaxWakes
    /\ wk' = Waker_wake(wk)
    /\ UNCHANGED <<now, tm, reg, drv, io, task>>
    /\ UNCHANGED notDriverVars

\* Handle::timer_register, line 123: self.time.timer_register(clock_entry)
\* inserts the entry, or fails and inserts nothing. The entries are
\* interchangeable: they are registered in the order of their numbers.
Handle_timer_register(t) ==
    /\ reg[t] = "idle"
    /\ \A u \in Timers : u < t => reg[u] # "idle"
    /\ \/ \E d \in Delays :
            /\ now + d <= MaxTime
            /\ tm' = WheelInsert(tm, t, now + d)
            /\ reg' = [reg EXCEPT ![t] = "inserted"]
       \/ /\ tm' = tm
          /\ reg' = [reg EXCEPT ![t] = "failed"]
    /\ UNCHANGED <<now, drv, wk, io, task>>
    /\ UNCHANGED notDriverVars

\* Handle::timer_register, lines 124-125: self.wake(), then res is returned
Mut_Handle_timer_register_wake(t) ==
    /\ reg[t] \in {"inserted", "failed"}
    /\ wk' = wk
    /\ reg' = [reg EXCEPT ![t] = "done"]
    /\ UNCHANGED <<now, tm, drv, io, task>>
    /\ UNCHANGED notDriverVars
Handle_timer_register_wake(t) ==
    /\ reg[t] \in {"inserted", "failed"}
    /\ wk' = Waker_wake(wk)
    /\ reg' = [reg EXCEPT ![t] = "done"]
    /\ UNCHANGED <<now, tm, drv, io, task>>
    /\ UNCHANGED notDriverVars

\* Handle::timer_cancel: the driver is not woken
Mut_Handle_timer_cancel(t) ==
    /\ reg[t] = "done" /\ tm[t].st = "in"
    /\ tm' = WheelRemove(tm, t)
    /\ wk' = Waker_wake(wk)
    /\ UNCHANGED <<now, reg, drv, io, task>>
    /\ UNCHANGED notDriverVars
Handle_timer_cancel(t) ==
    /\ reg[t] = "done" /\ tm[t].st = "in"
    /\ tm' = WheelRemove(tm, t)
    /\ UNCHANGED <<now, reg, drv, wk, io, task>>
    /\ UNCHANGED notDriverVars

\* The clock advances, up to MaxTime or to the end of the timeout of the
\* drive that is waiting
Tick ==
    /\ \/ now < MaxTime
       \/ (drv.at = "drive" /\ drv.dur # NoDuration /\ now < drv.t0 + drv.dur)
    /\ now' = now + 1
    /\ UNCHANGED <<tm, reg, drv, wk, io, task>>
    /\ UNCHANGED notDriverVars

\* The kernel has a readiness event for the registered source
kernel_event ==
    /\ ~io.kev /\ io.tick < MaxTick
    /\ io' = [io EXCEPT !.kev = TRUE]
    /\ UNCHANGED <<now, tm, reg, drv, wk, task>>
    /\ UNCHANGED notDriverVars

\* register_waker(direction, w), first look at the entry: an entry that is
\* ready yields the immediate-ready signal and the waker is not stored
register_waker_load ==
    /\ task.pc = "idle"
    /\ task' = IF io.ready THEN [task EXCEPT !.pc = "ready"]
                           ELSE [pc |-> "loaded", seen |-> io.tick]
    /\ UNCHANGED <<now, tm, reg, drv, wk, io>>
    /\ UNCHANGED notDriverVars

\* register_waker: the waker is installed in the slot of the direction
register_waker_store ==
    /\ task.pc = "loaded"
    /\ io' = [io EXCEPT !.slot = TRUE]
    /\ task' = [task EXCEPT !.pc = "stored"]
    /\ UNCHANGED <<now, tm, reg, drv, wk>>
    /\ UNCHANGED notDriverVars

\* register_waker: the tick is compared with the one seen before the
\* installation; a changed tick means the reactor ran in between and the
\* readiness is checked again
register_waker_check ==
    /\ task.pc = "stored"
    /\ task' = [task EXCEPT !.pc = IF io.tick # task.seen /\ io.ready
                                     THEN "ready" ELSE "pending"]
    /\ UNCHANGED <<now, tm, reg, drv, wk, io>>
    /\ UNCHANGED notDriverVars

\* The steps of the thread that holds the Driver
DriverStep ==
    \/ Driver_run
    \/ Driver_run_once
    \/ io_drive_block
    \/ io_drive_return
    \/ io_drive_dispatch

\* Driver and Handle: timers, wake-ups and readiness events
DriverNext ==
    \/ DriverStep
    \/ io_drive_fail
    \/ Handle_wake
    \/ \E t \in Timers : Handle_timer_register(t)
    \/ \E t \in Timers : Handle_timer_register_wake(t)
    \/ \E t \in Timers : Handle_timer_cancel(t)
    \/ Tick
    \/ kernel_event

\* The reactor driven by run / run_once and a task that installs its waker
ReactorNext ==
    \/ DriverStep
    \/ io_drive_fail
    \/ Handle_wake
    \/ kernel_event
    \/ register_waker_load
    \/ register_waker_store
    \/ register_waker_check

----------------------------------------------------------------------------
(* SO_LINGER conversions (ylong_io/src/sys/unix/tcp/socket.rs)             *)
(* Duration::as_secs is a u64 and linger.l_linger a c_int of 32 bits. Both *)
(* are kept as sequences of 16-bit digits, least significant digit first,  *)
(* so that every value of either width is exact.                           *)

DigitBase == 65536
\* digits of a u64
U64Digits == 4
\* digits of a c_int
CIntDigits == 2

\* digit values the seconds of a Duration are drawn from
DigitValues == {0, 1, 32767, 32768, 65535}
\* sub-second nanoseconds a Duration is drawn from
NanoValues == {0, 999999999}

Zero(n) == [i \in 1 .. n |-> 0]

\* Option<Duration>
NoneDuration == [some |-> FALSE, secs |-> Zero(U64Digits), nanos |-> 0]
SomeDuration(secs, nanos) == [some |-> TRUE, secs |-> secs, nanos |-> nanos]

\* the Option<Duration> values handed to into_linger
LingerArgs ==
    {NoneDuration}
        \cup {SomeDuration(s, n) : s \in [1 .. U64Digits -> DigitValues],
                                   n \in NanoValues}

\* Duration::as_secs: the whole seconds, the nanoseconds are dropped
as_secs(d) == d.secs
\* Duration::from_secs
from_secs(x) == SomeDuration(x, 0)

\* `x as c_int` of a u64 (line 146): the low 32 bits are kept
U64AsCInt(x) == SubSeq(x, 1, CIntDigits)

\* the sign bit of a c_int
CIntNegative(c) == c[CIntDigits] >= DigitBase \div 2

\* `c as u64` of a c_int (line 135): sign extension to 64 bits
CIntAsU64(c) ==
    c \o [i \in 1 .. U64Digits - CIntDigits |->
            IF CIntNegative(c) THEN DigitBase - 1 ELSE 0]

\* fn from_linger(linger: linger) -> Option<Duration>
from_linger(linger) ==
    IF linger.l_onoff = 0
      THEN NoneDuration
      ELSE from_secs(CIntAsU64(linger.l_linger))

\* fn into_linger(duration: Option<Duration>) -> linger
into_linger(duration) ==
    IF ~duration.some
      THEN [l_onoff |-> 0, l_linger |-> Zero(CIntDigits)]
      ELSE [l_onoff |-> 1, l_linger |-> U64AsCInt(as_secs(duration))]

\* No conversion is followed
NoLinger == [l_onoff |-> 0, l_linger |-> Zero(CIntDigits)]

LingerIdle ==
    lg = [pc |-> "off", duration |-> NoneDuration, linger |-> NoLinger,
          back |-> NoneDuration]

\* the caller (set_sock_linger, line 119) is about to convert its argument
LingerArg ==
    \E d \in LingerArgs :
      lg = [pc |-> "arg", duration |-> d, linger |-> NoLinger,
            back |-> NoneDuration]

\* let payload = into_linger(duration)
call_into_linger ==
    /\ lg.pc = "arg"
    /\ lg' = [lg EXCEPT !.pc = "linger", !.linger = into_linger(lg.duration)]
    /\ UNCHANGED notLingerVars

\* from_linger(linger) on the payload (get_sock_linger, line 114)
call_from_linger ==
    /\ lg.pc = "linger"
    /\ lg' = [lg EXCEPT !.pc = "done", !.back = from_linger(lg.linger)]
    /\ UNCHANGED notLingerVars

LingerNext ==
    \/ call_into_linger
    \/ call_from_linger

----------------------------------------------------------------------------
(* Specifications *)

\* The Record part of the other specifications: nothing is recorded
RecordIdle ==
    /\ ref = RefCounters(NumWorkers, 0, TRUE)
    /\ tlog = <<>>

\* The contents are not followed
DataIdle ==
    /\ content = <<>>
    /\ bdata = <<>>
    /\ rt = NoTrip

Init ==
    SleeperInit /\ FileInit /\ RecordIdle /\ DataIdle /\ DriverInit /\ LingerIdle

\* One thread using a Record; the File is not used
InitRecord ==
    RecordInit /\ FileInit /\ DataIdle /\ DriverInit /\ LingerIdle

SpecRecord == InitRecord /\ [][RecordNext]_vars

SpecSleeper == Init /\ [][SleeperNext]_vars

SpecFile == Init /\ [][FileNext]_vars

\* The Driver over a File that is not used
InitDriver == Init /\ flen = 0

SpecDriver == InitDriver /\ [][DriverNext]_vars

SpecReactor == InitDriver /\ [][ReactorNext]_vars

\* The thread that holds the Driver goes on calling run / run_once and a
\* drive whose kernel primitive has something to return does return; a
\* thread inside Handle::timer_register reaches its wake; the clock
\* advances. Nothing is assumed of wake() calls of other threads, of the
\* kernel's readiness events or of the task.
DriverFairness ==
    /\ WF_vars(DriverStep)
    /\ WF_vars(Tick)
    /\ \A t \in Timers : WF_vars(Handle_timer_register_wake(t))

SpecDriverFair == InitDriver /\ [][DriverNext]_vars /\ DriverFairness

\* A caller of the linger conversions; nothing else is used
InitLinger ==
    /\ SleeperInit /\ FileInit /\ RecordIdle /\ DataIdle /\ DriverInit
    /\ flen = 0
    /\ LingerArg

SpecLinger == InitLinger /\ [][LingerNext]_vars

----------------------------------------------------------------------------
(* Round trip: write, flush, seek to the start, read *)

\* the byte values a caller writes; "z" is what the file held before
Bytes == {"a", "b"}

\* byte sequences of length n
BytesOfLen(n) == [1 .. n -> Bytes]

\* A new File over a file of flen bytes, and a caller about to write N
\* bytes, N not above the buffer size limit
RoundTripInit ==
    /\ SleeperInit /\ FileInit /\ RecordIdle /\ DriverInit /\ LingerIdle
    /\ content = [i \in 1 .. flen |-> "z"]
    /\ bdata = <<>>
    /\ \E n \in 1 .. Min(MaxLen, BufLimit) : \E b \in BytesOfLen(n) :
         rt = [stage |-> "write", bytes |-> b, out |-> <<>>]

\* file.write(bytes)
rt_write == rt.stage = "write" /\ poll_write(Len(rt.bytes))

\* file.flush(), polled until it is ready
rt_flush == rt.stage = "flush" /\ poll_flush

\* file.seek(SeekFrom::Start(0)), polled until it is ready
rt_seek == rt.stage = "seek" /\ poll_seek([whence |-> "Start", off |-> 0])

\* file.read(buf) with a buffer of N bytes, polled until it is ready
rt_read == rt.stage = "read" /\ poll_read(Len(rt.bytes))

RoundTripNext ==
    \/ rt_write
    \/ rt_flush
    \/ rt_seek
    \/ rt_read
    \/ read_job_run
    \/ write_job_run
    \/ seek_job_run
    \/ job_join_fails

SpecRoundTrip == RoundTripInit /\ [][RoundTripNext]_vars

----------------------------------------------------------------------------
(* File: properties *)

\* Blocking jobs spawned by the File that have not run to their end
NumRunning ==
    (IF job.st = "running" THEN 1 ELSE 0)
        + (IF sl_job.st = "running" THEN 1 ELSE 0)
        + (IF sync_job.st = "running" THEN 1 ELSE 0)
        + sync_det

\* C1 (as claimed): the state is one of Idle, Reading, Writing, Seeking and
\* at most one blocking job spawned by the File is running at any instant,
\* whatever calls were made and abandoned before.
C1_AtMostOneJob ==
    /\ state \in {"Idle", "Reading", "Writing", "Seeking"}
    /\ NumRunning <= 1

\* Jobs that own the File's buffer: the job in state and the job of set_len
BufferJobsRunning ==
    (IF job.st = "running" THEN 1 ELSE 0)
        + (IF sl_job.st = "running" THEN 1 ELSE 0)

\* C1 (amended): the state is one of Idle, Reading, Writing, Seeking; at
\* most one job that owns the buffer (read, write, seek, set_len) is running
\* at any instant and the File is not Idle(Some(buf)) meanwhile; a read,
\* write or seek job is spawned only when no such job is running. A sync job
\* left behind by a dropped sync_all / sync_data may run next to it.
C1_AtMostOneBufferJob ==
    /\ [](/\ state \in {"Idle", "Reading", "Writing", "Seeking"}
          /\ BufferJobsRunning <= 1
          /\ BufferJobsRunning = 1 => ~(state = "Idle" /\ buf_some))
    /\ [][(job'.st = "running" /\ job' # job)
             => (BufferJobsRunning = 0 /\ (state = "Idle" => buf_some))]_vars

C1_Witness ==
    /\ state = "Writing" /\ job.st = "running"
    /\ sync_det = 1
    /\ NumRunning = 2

\* C2 (as claimed): whenever an operation can start on an Idle File, the
\* buffer is present (Idle(Some(buf))), so buf.take().unwrap() never panics.
C2_IdleHoldsBuffer ==
    /\ (CanCall /\ state = "Idle") => buf_some
    /\ panic # "unwrap"

\* C3 (as claimed): once a stored write error has been returned by a write
\* or a flush, write_err is None again.
C3_StoredErrorCleared ==
    (fret.op \in {"poll_write", "poll_flush"} /\ fret.res = "Err" /\ fret.stored)
        => write_err = "None"

\* The error of a failed write job that is still to be reported: in the
\* finished job while nobody joined it, in write_err afterwards.
PendingErr ==
    IF state = "Writing" /\ job.st = "err" THEN job.err
    ELSE IF write_err \in ErrorKinds THEN write_err
    ELSE "None"

\* C4: no failed write is lost. While the error E of a failed write job is
\* pending, a step that is not the return of poll_write or poll_flush keeps
\* it pending (whichever operation joins the job saves it), and a poll_write
\* or poll_flush that returns, returns Err of kind E and spawns no job.
C4_NoFailedWriteLost ==
    [][PendingErr # "None" =>
         IF fret'.op \in {"poll_write", "poll_flush"} /\ fret'.res # "Pending"
           THEN /\ fret'.res = "Err"
                /\ fret'.kind = PendingErr
                /\ ~fret'.spawned
                /\ (job' = job \/ job'.st = "none")
           ELSE PendingErr' = PendingErr]_vars

C4_Witness ==
    /\ fret.op = "poll_write" /\ fret.res = "Err" /\ fret.stored
    /\ fret.kind \in ErrorKinds
    /\ state = "Reading"

\* The File operations of the poll_* family
PollOps == {"poll_read", "poll_write", "poll_seek", "poll_flush"}

\* C13 (as claimed): a poll_read, poll_write, poll_seek or poll_flush call
\* made while the job in the state is still running returns Pending in that
\* call, without waiting for the job, and keeps the job in the state.
C13_OpsSuspend ==
    [][(/\ CanCall
        /\ state # "Idle" /\ job.st = "running"
        /\ (fret'.op \in PollOps \/ call' # 0))
         => /\ call' = 0
            /\ fret'.res = "Pending"
            /\ job' = job /\ state' = state]_vars

\* C14 (as claimed): whenever a poll_read, poll_write, poll_seek or
\* poll_flush returns an error that came out of the blocking job it joined
\* (not one kept in write_err), the state is Idle(Some(buf)) at that moment.
C14_ErrorRestoresIdle ==
    (fret.op \in PollOps /\ fret.res = "Err" /\ ~fret.stored)
        => (state = "Idle" /\ buf_some)

\* C15 (as claimed): into_std never panics: after its internal flush no
\* blocking job holds a clone of the file handle and Arc::try_unwrap succeeds.
C15_IntoStdNeverPanics == panic # "try_unwrap"

C17_SetLenKeepsCursor ==
    [][/\ (fret'.op = "set_len" /\ fret'.res = "Ok") => idx' = idx
       /\ (sl_job.st = "running" /\ sl_job'.st = "ok")
            => pos' - sl_job'.unread = pos - sl_job.unread]_vars

\* C18 (as claimed): the job of set_len first seeks the file backward by the
\* number of unread read-ahead bytes of the buffer, then sets the length;
\* without read-ahead it leaves the position alone.
C18_SetLenSeeksBack ==
    [][(sl_job.st = "running" /\ sl_job'.st = "ok")
         => /\ pos' = pos - sl_job.unread
            /\ flen' = sl_job.size]_vars

\* Bytes read from the file that no caller received: the unread bytes of the
\* buffer in Idle, or those of the finished job still held by the state
ReadAhead ==
    IF state = "Idle" THEN unread
    ELSE IF job.st \in {"ok", "err"} THEN job.rem
    ELSE 0

\* C19: a relative seek moves the logical cursor by the amount asked. With
\* u bytes of read-ahead (file position L + u), also those of a read that
\* was abandoned, poll_seek(Current(d)) dispatches a seek that lands on
\* L + d; nothing else moves the file until the seek is joined; poll_seek
\* returns L + d with an empty buffer, so the next read starts at L + d.
C19_RelativeSeek ==
    [][/\ \A a \in SeekArgs :
            (/\ a.whence = "Current"
             /\ fret'.op = "poll_seek" /\ fret'.spawned
             /\ poll_seek(a))
              => /\ job'.st = "running" /\ job'.whence = "Current"
                 /\ pos' = pos
                 /\ pos + job'.off = (pos - ReadAhead) + a.off
       /\ (state = "Seeking" /\ job' = job) => pos' = pos
       /\ (/\ state = "Seeking" /\ job.whence = "Current"
           /\ job.st = "running" /\ job'.st = "ok")
              => (pos' = pos + job.off /\ job'.val = pos')
       /\ (fret'.op = "poll_seek" /\ fret'.res = "Ok")
              => /\ state = "Seeking" /\ fret'.n = job.val
                 /\ pos' = job.val
                 /\ state' = "Idle" /\ buf_some' /\ unread' = 0]_vars

C19_Witness ==
    /\ state = "Seeking" /\ job.st = "ok"
    /\ job.whence = "Current" /\ job.off = -2
    /\ job.val = 0 /\ pos = 0

\* C20: round trip. Once the caller wrote its N bytes (N not above the
\* buffer size limit), flushed, sought to Start(0) and read into a buffer of
\* N bytes, every call returning Ok, the bytes read are the bytes written.
C20_RoundTrip == rt.stage = "done" => rt.out = rt.bytes

C20_Witness ==
    /\ rt.stage = "done"
    /\ rt.bytes = <<"a", "b">>
    /\ rt.out = <<"a", "b">>
    /\ content = <<"a", "b">>

----------------------------------------------------------------------------
(* Record used by one thread: properties *)

\* The (active, searching) pair after the i-th recorded call
AfterCall(i) ==
    IF i < Len(tlog)
      THEN [active_num |-> tlog[i + 1].active,
            searching_num |-> tlog[i + 1].searching]
      ELSE load_state(record)

\* C11: try_inc_searching_num called sequentially returns true and adds one
\* to searching exactly when searching * 2 < active, and otherwise returns
\* false and changes nothing; with 4 active and 0 searching three successive
\* calls return true, true, false.
C11_SequentialTryInc ==
    /\ \A i \in 1 .. Len(tlog) :
         /\ tlog[i].ret = (tlog[i].searching * 2 < tlog[i].active)
         /\ AfterCall(i).active_num = tlog[i].active
         /\ AfterCall(i).searching_num
              = tlog[i].searching + (IF tlog[i].ret THEN 1 ELSE 0)
    /\ (Len(tlog) >= 3 /\ tlog[1].active = 4 /\ tlog[1].searching = 0)
         => (tlog[1].ret /\ tlog[2].ret /\ ~tlog[3].ret)

C11_Witness ==
    /\ Len(tlog) = 3
    /\ tlog[1].active = 4 /\ tlog[1].searching = 0
    /\ ~tlog[3].ret
    /\ Searching = 2

\* C12 (as claimed): after every sequence of inc_active_num, dec_active_num,
\* inc_searching_num and dec_searching_num, load_state returns the pair held
\* by two independent counters, and dec_active_num returned true exactly
\* when the active counter went to 0.
C12_RecordMatchesCounters ==
    /\ Active = ref.active
    /\ Searching = ref.searching
    /\ sret.op = "dec_active_num" => (sret.val = (ref.active = 0))

\* C12 (amended): the same, for every sequence that never decrements a
\* counter which is 0 and never increments the searching counter beyond
\* SEARCHING_MASK.
C12_RecordMatchesValidCounters ==
    ref.valid =>
        /\ Active = ref.active
        /\ Searching = ref.searching
        /\ sret.op = "dec_active_num" => (sret.val = (ref.active = 0))

C12_Witness ==
    /\ ref.valid
    /\ sret.op = "dec_active_num" /\ sret.val = TRUE
    /\ ref.searching = 2
    /\ Searching = 2 /\ Active = 0

----------------------------------------------------------------------------
(* Sleeper: properties *)

\* C5 (as claimed): a try_inc_searching_num call increments the searching
\* count only if searching * 2 < active holds at the moment of the increment,
\* so the searching count stays capped at half of the active workers.
C5_IncrementOnlyBelowCap ==
    [][\A w \in Workers :
         (pc[w] = "tis_inc" /\ pc'[w] = "search") => Searching * 2 < Active]_vars

\* C6: at most one worker is the driver at any time: while a worker whose
\* push_worker returned true has not been handed back by pop_worker, no
\* other push_worker call returns true.
C6_AtMostOneDriver == Cardinality(drivers) <= 1

C6_Witness ==
    \E w \in Workers :
        /\ drivers = {w}
        /\ pc[w] = "parked"
        /\ sret = [op |-> "push_worker", who |-> w, val |-> TRUE]

C8_PopOnlyWhenNoneSearching ==
    [][\A t \in Threads :
         (pc[t] = "pop_lock" /\ pc'[t] = "pop_inc")
             => (Searching = 0 /\ Active < NumWorkers)]_vars

\* C9: push_worker(i) appends i to the idle list, decrements active by
\* exactly one (searching untouched) and returns true iff that decrement
\* brought the active count to zero.
C9_PushWorker ==
    [][\A w \in Workers :
         /\ (pc[w] = "run" /\ pc'[w] = "push_dec")
                => idle_list' = Append(idle_list, w)
         /\ (pc[w] = "push_dec" /\ pc'[w] = "parked")
                => /\ Active' = Active - 1
                   /\ Searching' = Searching
                   /\ idle_list' = idle_list
                   /\ sret'.op = "push_worker" /\ sret'.who = w
                   /\ sret'.val = (Active' = 0)]_vars

C9_Witness ==
    /\ sret.op = "push_worker" /\ sret.val = TRUE
    /\ Active = 0
    /\ Len(idle_list) = NumWorkers

\* C10: dec_searching_num decrements the searching count by one (active
\* untouched) and returns true iff the count went from 1 to 0, so exactly
\* the call that empties the searching set returns true.
C10_DecSearching ==
    [][\A w \in Workers :
         (pc[w] = "search" /\ pc'[w] = "run")
             => /\ Searching' = Searching - 1
                /\ Active' = Active
                /\ sret'.op = "dec_searching_num" /\ sret'.who = w
                /\ sret'.val = (Searching = 1)]_vars

C10_Witness ==
    /\ sret.op = "dec_searching_num" /\ sret.val = TRUE
    /\ Searching = 0
    /\ \E w \in Workers : pc[w] = "tis_inc"

----------------------------------------------------------------------------
(* File: reads from the buffer, flush, sync, writes over read-ahead *)

\* C21: a poll_read on an Idle File whose buffer holds u > 0 unread bytes
\* returns Ready(Ok) in that call with min(u, want) bytes taken out of the
\* buffer, spawns no blocking job, moves neither the file nor idx and leaves
\* the state Idle(Some(buf)) with the rest of the bytes.
C21_ReadFromBuffer ==
    [][\A want \in 1 .. MaxLen :
         (/\ state = "Idle" /\ buf_some /\ unread > 0
          /\ poll_read(want))
           => /\ fret'.op = "poll_read" /\ fret'.res = "Ok"
              /\ fret'.n = Min(unread, want) /\ fret'.n > 0
              /\ ~fret'.spawned
              /\ job' = NoJob
              /\ state' = "Idle" /\ buf_some'
              /\ unread' = unread - fret'.n
              /\ UNCHANGED <<pos, flen, idx, write_err, panic>>]_vars

\* a read left one byte of read-ahead in the buffer of an Idle File, on which
\* the next poll_read can be called
C21_Witness ==
    /\ CanCall
    /\ state = "Idle" /\ buf_some /\ unread = 1
    /\ fret.op = "poll_read" /\ fret.res = "Ok" /\ fret.n = 1

\* C22 (as claimed): a poll_flush made in a non-Idle state whose job is
\* running returns Pending and keeps the job; made once the job ran to its
\* end it restores Idle(Some(buf)) and returns Err exactly when the job was
\* a Writing job that failed; made in Idle it returns without spawning and
\* leaves state, buffer, idx and write_err as they were.
C22_FlushDrivesJob ==
    [][(poll_flush /\ job.st \in {"none", "running", "ok", "err"})
         => /\ ~fret'.spawned
            /\ idx' = idx /\ write_err' = write_err
            /\ state = "Idle" =>
                 UNCHANGED <<state, buf_some, unread, job>>
            /\ (state # "Idle" /\ job.st = "running") =>
                 (fret'.res = "Pending" /\ UNCHANGED <<state, job>>)
            /\ (state # "Idle" /\ job.st \in {"ok", "err"}) =>
                 /\ state' = "Idle" /\ buf_some' /\ job' = NoJob
                 /\ fret'.res = "Err" <=> (state = "Writing" /\ job.st = "err")]_vars

\* C23: the sync closure of sync_all / sync_data is handed to the blocking
\* pool only once no Writing job of the File is running, and none is started
\* while the call awaits its sync job: a write accepted before the call was
\* carried out (or failed) before the sync runs.
C23_SyncAfterWrite ==
    [][/\ (sync_job.st # "running" /\ sync_job'.st = "running")
            => /\ ~(state = "Writing" /\ job.st = "running")
               /\ ~(state' = "Writing" /\ job'.st = "running")
       /\ (sync_job.st = "running" /\ state' = "Writing")
            => (state = "Writing" /\ job'.st # "running")]_vars

\* sync_all spawned its sync job after its flush joined a write job that had
\* extended the empty file by one byte
C23_Witness ==
    /\ fut.fn = "sync_all" /\ fut.at = "job" /\ sync_job.st = "running"
    /\ state = "Idle" /\ buf_some /\ write_err = "None"
    /\ flen = 1 /\ pos = 1 /\ idx = 0

\* C30: a write job spawned while u bytes of read-ahead are held (in the
\* buffer or by the finished job that poll_write joins) carries back = u and
\* the file does not move at the spawn or before the job runs; the job lands
\* the n bytes on pos - u, the logical cursor, ending at pos - u + n; a job
\* that fails on its seek leaves position and length of the file alone.
C30_WriteAtCursor ==
    [][/\ (/\ state' = "Writing" /\ job'.st = "running"
           /\ ~(state = "Writing" /\ job.st = "running"))
            => /\ job'.back = ReadAhead
               /\ fret'.op = "poll_write" /\ fret'.n = job'.n
               /\ pos' = pos /\ flen' = flen
       /\ (state = "Writing" /\ job.st = "running" /\ job' = job)
            => pos' = pos
       /\ (state = "Writing" /\ job.st = "running" /\ job'.st = "ok")
            => /\ pos' = (pos - job.back) + job.n
               /\ flen' = Max(flen, pos')
       /\ (state = "Writing" /\ job.st = "running" /\ job'.st = "err")
            => /\ flen' = flen
               /\ pos' \in {pos, pos - job.back}]_vars

\* a write of one byte made over two bytes of read-ahead landed on offset 0
C30_Witness ==
    /\ state = "Writing" /\ job.st = "ok"
    /\ job.back = 2 /\ job.n = 1
    /\ pos = 1 /\ flen = 2

----------------------------------------------------------------------------
(* Driver, timers and Waker: properties *)

\* C24: Handle::timer_register first inserts the entry and then wakes the
\* driver: its insertion step issues no wake and its wake step finds the
\* entry inserted (unless the insertion failed) and leaves the wake event
\* pending. A run that starts with the entry in the wheel gets a timeout
\* that ends no later than its deadline. Provided the thread holding the
\* Driver goes on calling run / run_once: a drive that is blocked while an
\* entry was inserted returns, and an entry in the wheel is eventually fired
\* (or cancelled, or the driver thread panicked on a failed drive).
C24_TimerRegisterWakes ==
    /\ [][\A t \in Timers :
            /\ (reg[t] = "idle" /\ reg'[t] # "idle") => wk' = wk
            /\ (reg[t] # "done" /\ reg'[t] = "done")
                 => /\ reg[t] \in {"inserted", "failed"}
                    /\ reg[t] = "inserted" => tm[t].st # "unreg"
                    /\ wk'.pending]_vars
    /\ [][(drv.at = "idle" /\ drv'.at = "timed" /\ drv'.fn = "run")
            => \A t \in Timers :
                 tm'[t].st = "in" => /\ drv'.dur # NoDuration
                                     /\ now + drv'.dur <= tm'[t].dl]_vars
    /\ (drv.at = "drive" /\ \E t \in Timers : reg[t] = "inserted")
         ~> (drv.at # "drive")
    /\ \A t \in Timers :
         (tm[t].st = "in") ~> (tm[t].st # "in" \/ drv.at = "panicked")

\* an entry was inserted and the wake issued while the driver is blocked in
\* run without a timeout
C24_Witness ==
    \E t \in Timers :
      /\ reg[t] = "done" /\ tm[t].st = "in" /\ tm[t].dl > now
      /\ drv.fn = "run" /\ drv.at = "drive" /\ drv.dur = NoDuration
      /\ wk.pending /\ wk.calls = 1

\* C25: no wake is lost: every wake() not yet answered by a return of drive
\* is pending at the eventfd, whether it was issued before the driver
\* blocked or while it is blocked; a drive entered or about to be entered
\* with such a wake returns; one return of drive answers all the wake()
\* calls made since the last one.
C25_WakeReturnsDrive ==
    /\ [](wk.calls > 0 => wk.pending)
    /\ [][(drv.at = "drive" /\ drv'.at \in {"idle", "dispatch"})
            => (~wk'.pending /\ wk'.calls = 0)]_vars
    /\ (wk.calls > 0 /\ drv.at \in {"timed", "drive"})
         ~> ~(drv.at \in {"timed", "drive"})

\* two wake() calls were made while run is blocked in a drive without
\* timeout and without readiness event: one return will answer both
C25_Witness ==
    /\ drv.fn = "run" /\ drv.at = "drive" /\ drv.dur = NoDuration
    /\ wk.calls = 2 /\ wk.pending
    /\ \A t \in Timers : reg[t] = "idle"
    /\ ~io.kev

\* C26: registration race. Once the installation of a waker reported "not
\* ready" and the reactor recorded readiness and finished its dispatch, the
\* reactor has taken and invoked the waker: the entry is never ready with
\* the waker stored, the task told to wait and nobody waking it.
C26_NoLostWakeup ==
    (task.pc = "pending" /\ io.ready /\ drv.at # "dispatch")
        => (io.woken /\ ~io.slot)

\* the race: the reactor recorded readiness and took the (empty) slot
\* between the task's first look and its installation; the installation
\* saw the changed tick and reported "already ready"
C26_Witness ==
    /\ task.pc = "ready" /\ task.seen # io.tick
    /\ io.ready /\ io.slot /\ ~io.woken
    /\ drv.at = "idle"

\* C27 (as claimed): run gets from the timer wheel the duration until the
\* next deadline (None if no timer is pending) as the timeout of drive, and
\* when run returns no timer whose deadline has passed is left unfired.
C27_RunFiresExpired ==
    [][/\ (drv.at = "idle" /\ drv'.at = "timed" /\ drv'.fn = "run")
            => /\ drv'.dur = NoDuration <=> Pending(tm') = {}
               /\ \A d \in Pending(tm') : now + drv'.dur <= d
       /\ (drv.fn = "run" /\ drv.at \in {"drive", "dispatch"} /\ drv'.at = "idle")
            => \A d \in Pending(tm') : d > now']_vars

\* C28: run_once never blocks: it fires every timer whose deadline has
\* passed and its drive has the timeout zero, so the kernel primitive has
\* something to return as soon as it is entered, whatever the next deadline
\* and with or without a wake or readiness event.
C28_RunOnceNeverBlocks ==
    /\ []((drv.fn = "run_once" /\ drv.at \in {"timed", "drive"})
            => /\ drv.dur = 0
               /\ drv.at = "drive" => DriveReady)
    /\ [][(drv.at = "idle" /\ drv'.at = "timed" /\ drv'.fn = "run_once")
            => \A d \in Pending(tm') : d > now]_vars

\* run_once is inside drive with a timer pending in the future and neither a
\* wake nor a readiness event
C28_Witness ==
    /\ drv.fn = "run_once" /\ drv.at = "drive"
    /\ ~wk.pending /\ ~io.kev
    /\ \E t \in Timers : tm[t].st = "in" /\ tm[t].dl > now

\* C29: a failed drive is fatal: run / run_once return to their caller only
\* with the result Ok of drive; after an Err the thread is in the panic of
\* expect and takes no further step of the Driver.
C29_DriveErrorFatal ==
    /\ [](drv.res = "err" => drv.at = "panicked")
    /\ [][(drv.at # "idle" /\ drv'.at = "idle") => drv'.res = "ok"]_vars
    /\ [][drv.at = "panicked" => drv' = drv]_vars

\* drive failed inside run, with a timer waiting in the wheel
C29_Witness ==
    /\ drv.at = "panicked" /\ drv.fn = "run" /\ drv.res = "err"
    /\ \E t \in Timers : tm[t].st = "in"

----------------------------------------------------------------------------
(* File: writes from Idle, seeks, set_len and the stored write error *)

\* C31 (as claimed): a poll_write on an Idle File with no stored write error
\* appends the caller's bytes to the buffer, spawns exactly one Writing job
\* and returns Ready(Ok(n)) in the same call, the job still running, where n
\* is the number of bytes appended and is at most the length of the data.
C31_WriteFromIdle ==
    [][\A len \in 1 .. MaxLen :
         (state = "Idle" /\ write_err = "None" /\ poll_write(len))
           => /\ fret'.op = "poll_write" /\ fret'.res = "Ok"
              /\ fret'.n = AppendLen(len) /\ fret'.n <= len
              /\ fret'.spawned
              /\ state' = "Writing" /\ job'.st = "running"
              /\ job'.n = fret'.n
              /\ call' = 0 /\ panic' = "none"]_vars

\* C32: every poll_seek that dispatches a seek job leaves no buffered bytes
\* behind (the buffer moves into the job, emptied) and does not move the
\* file; a Start or End seek is dispatched with the offset of the caller.
\* The job lands on that offset from the start, or from the end of the file
\* as it is when the job runs. poll_seek returns the position the job landed
\* on with the buffer back and empty, so a read that follows starts a read
\* job at that position and hands out nothing buffered earlier.
C32_SeekDiscardsBuffer ==
    [][/\ \A a \in SeekArgs :
            (fret'.op = "poll_seek" /\ fret'.spawned /\ poll_seek(a))
              => /\ state' = "Seeking" /\ job'.st = "running"
                 /\ ~buf_some' /\ unread' = 0 /\ job'.rem = 0
                 /\ job'.whence = a.whence
                 /\ a.whence # "Current" => job'.off = a.off
                 /\ pos' = pos
       /\ (state = "Seeking" /\ job.st = "running" /\ job'.st = "ok")
            => /\ job.whence = "Start" => pos' = job.off
               /\ job.whence = "End" => pos' = flen + job.off
               /\ job'.val = pos' /\ job'.rem = 0
       /\ (fret'.op = "poll_seek" /\ fret'.res = "Ok")
            => /\ state' = "Idle" /\ buf_some' /\ unread' = 0
               /\ fret'.n = pos'
       /\ (/\ fret.op = "poll_seek" /\ fret.res = "Ok"
           /\ fret'.op = "poll_read")
            => /\ fret'.res = "Pending" /\ fret'.spawned
               /\ state' = "Reading" /\ job'.st = "running"
               /\ pos' = fret.n]_vars

\* an End(-1) seek made over two bytes of read-ahead landed on offset 1
C32_Witness ==
    /\ state = "Seeking" /\ job.st = "ok"
    /\ job.whence = "End" /\ job.off = -1
    /\ job.val = 1 /\ pos = 1 /\ flen = 2

\* C35 (as claimed): set_len never reaches its unreachable!() branch: in
\* every reachable File state the state is Idle when the flush inside
\* set_len has returned.
C35_SetLenFlushEndsIdle == panic # "unreachable"

\* C36 (as claimed): while a Writing job is in flight write_err is None; no
\* write job is started while a write error is stored; and a write error is
\* stored only by the step that joins the failed write job held in the
\* state, which takes that job out of the state (the state is set back to
\* Idle before anything else happens) and stores the kind the job failed with.
C36_WriteErrOnlyFromFailedWrite ==
    /\ [](state = "Writing" /\ job.st = "running" => write_err = "None")
    /\ [][/\ (/\ state' = "Writing" /\ job'.st = "running"
              /\ ~(state = "Writing" /\ job.st = "running"))
               => write_err = "None" /\ write_err' = "None"
          /\ write_err' # write_err
               => /\ state = "Writing" /\ job.st = "err"
                  /\ write_err' = job.err
                  /\ job' # job /\ job'.st \in {"none", "running"}]_vars

----------------------------------------------------------------------------
(* Driver: cancelling a timer *)

\* C33: Handle::timer_cancel only removes the entry from the timer wheel.
\* The step that cancels an entry leaves the wake event, the reactor, the
\* task, the clock, the other entries and the position of the driver
\* thread as they are: a driver that is blocked in drive before the step is
\* blocked after it, with the timeout it went in with.
C33_CancelOnlyRemoves ==
    [][\A t \in Timers :
         (tm[t].st = "in" /\ tm'[t].st = "cancelled")
           => /\ wk' = wk /\ io' = io /\ task' = task
              /\ drv' = drv /\ now' = now /\ reg' = reg
              /\ \A u \in Timers \ {t} : tm'[u] = tm[u]
              /\ (drv.at = "drive" /\ ~DriveReady)
                   => (drv'.at = "drive" /\ ~DriveReady')]_vars

\* the entry was cancelled while the driver is blocked in drive with the
\* timeout computed from it, and the driver is still blocked
C33_Witness ==
    \E t \in Timers :
      /\ tm[t].st = "cancelled"
      /\ drv.at = "drive" /\ drv.fn = "run" /\ drv.dur = 1
      /\ ~DriveReady

----------------------------------------------------------------------------
(* Sleeper: conservation of workers *)

\* C34: conservation of workers. Whenever no thread holds the idle-list
\* lock, the decoded active count plus the length of the idle list is
\* num_workers. A push_worker that is about to decrement finds an active
\* count of at least 1, and the index a pop_worker took out of the list is
\* that of a parked worker.
C34_Conservation ==
    /\ lock = {} => Active + Len(idle_list) = NumWorkers
    /\ \A w \in Workers : pc[w] = "push_dec" => Active >= 1
    /\ \A t \in Threads :
         pc[t] = "pop_inc" => (res[t] \in Workers /\ pc[res[t]] = "parked")

\* two workers parked and one of them was handed back by pop_worker
C34_Witness ==
    /\ lock = {}
    /\ sret.op = "pop_worker" /\ sret.val \in Workers
    /\ Len(idle_list) = 1 /\ Active = NumWorkers - 1

----------------------------------------------------------------------------
(* SO_LINGER conversions: properties *)

\* the c_int c holds the value of the u64 x
CIntHolds(c, x) ==
    /\ ~CIntNegative(c)
    /\ x = c \o Zero(U64Digits - CIntDigits)

\* C37 (as claimed): into_linger(None) is l_onoff = 0, l_linger = 0 and
\* from_linger of it is None; for every duration d, into_linger(Some(d))
\* holds the whole seconds of d in l_linger, unchanged in value, and
\* from_linger of it is Some of d truncated to whole seconds.
C37_LingerRoundTrip ==
    lg.pc = "done" =>
      IF lg.duration.some
        THEN /\ lg.linger.l_onoff = 1
             /\ CIntHolds(lg.linger.l_linger, as_secs(lg.duration))
             /\ lg.back = SomeDuration(as_secs(lg.duration), 0)
        ELSE /\ lg.linger = [l_onoff |-> 0, l_linger |-> Zero(CIntDigits)]
             /\ lg.back = NoneDuration

============================================================================
